---- MODULE Spec2Model ----
(***************************************************************************)
(* A model of hls_downloader: the polling loop of internal/downloader, the *)
(* segment identity of internal/parser and the download engine of          *)
(* internal/storage.                                                       *)
(*                                                                         *)
(* Strings are sequences of one-character strings.  The URL strings of the *)
(* model are written over letters, digits and the characters               *)
(* ":" "/" "." "?" "#" "_" "-" "!"; they hold no "%", no "@", no "[", no   *)
(* space and no control character, so the percent-decoding of net/url is   *)
(* the identity on them, no URL has user information or an IP literal, and *)
(* URL.String escapes nothing but a "#" inside a fragment.                 *)
(* The text of a playlist is the sequence of its lines.                    *)
(***************************************************************************)
EXTENDS Integers, Sequences, FiniteSets, TLC

\* ------------------------------------------------------------------------
\* Strings
\* ------------------------------------------------------------------------

Digits == <<"0", "1", "2", "3", "4", "5", "6", "7", "8", "9">>

IsDigit(c) == \E i \in 1..Len(Digits) : Digits[i] = c

IsLetter(c) ==
    c \in {"a", "b", "c", "d", "e", "f", "g", "h", "i", "j", "k", "l", "m",
           "n", "o", "p", "q", "r", "s", "t", "u", "v", "w", "x", "y", "z"}

IsUpper(c) ==
    c \in {"A", "B", "C", "D", "E", "F", "G", "H", "I", "J", "K", "L", "M",
           "N", "O", "P", "Q", "R", "S", "T", "U", "V", "W", "X", "Y", "Z"}

UpperCase ==
    <<"A", "B", "C", "D", "E", "F", "G", "H", "I", "J", "K", "L", "M",
      "N", "O", "P", "Q", "R", "S", "T", "U", "V", "W", "X", "Y", "Z">>

LowerCase ==
    <<"a", "b", "c", "d", "e", "f", "g", "h", "i", "j", "k", "l", "m",
      "n", "o", "p", "q", "r", "s", "t", "u", "v", "w", "x", "y", "z">>

lowerOf(c) ==
    IF IsUpper(c) THEN LowerCase[CHOOSE i \in 1..Len(UpperCase) : UpperCase[i] = c] ELSE c

\* strings.ToLower
ToLower(str) == [i \in 1..Len(str) |-> lowerOf(str[i])]

\* the value of a decimal digit
DigitVal(c) == (CHOOSE i \in 1..Len(Digits) : Digits[i] = c) - 1

\* strings.Index for a one-character needle, 1-based; 0 when absent
IndexOf(s, c) ==
    IF \E i \in 1..Len(s) : s[i] = c
    THEN CHOOSE i \in 1..Len(s) : s[i] = c /\ \A j \in 1..(i - 1) : s[j] # c
    ELSE 0

\* strings.LastIndex for a one-character needle, 1-based; 0 when absent
LastIndexOf(s, c) ==
    IF \E i \in 1..Len(s) : s[i] = c
    THEN CHOOSE i \in 1..Len(s) : s[i] = c /\ \A j \in (i + 1)..Len(s) : s[j] # c
    ELSE 0

HasSuffix(s, suf) ==
    /\ Len(suf) <= Len(s)
    /\ SubSeq(s, Len(s) - Len(suf) + 1, Len(s)) = suf

HasPrefix(s, pre) ==
    /\ Len(pre) <= Len(s)
    /\ SubSeq(s, 1, Len(pre)) = pre

TrimSuffix(s, suf) ==
    IF HasSuffix(s, suf) THEN SubSeq(s, 1, Len(s) - Len(suf)) ELSE s

\* the string without its trailing slashes
RECURSIVE StripTrailingSlashes(_)
StripTrailingSlashes(p) ==
    IF Len(p) > 0 /\ p[Len(p)] = "/"
    THEN StripTrailingSlashes(SubSeq(p, 1, Len(p) - 1))
    ELSE p

\* path.Base
lastElement(q) ==
    IF q = <<>> THEN <<"/">> ELSE SubSeq(q, LastIndexOf(q, "/") + 1, Len(q))

Base(p) ==
    IF p = <<>> THEN <<".">> ELSE lastElement(StripTrailingSlashes(p))

\* path.Ext: the suffix from the last dot of the last path element
Ext(p) ==
    IF LastIndexOf(p, ".") > LastIndexOf(p, "/")
    THEN SubSeq(p, LastIndexOf(p, "."), Len(p))
    ELSE <<>>

\* the maximal run of digits that ends the string: the match of (\d+)$
RECURSIVE TrailingDigits(_)
TrailingDigits(s) ==
    IF Len(s) > 0 /\ IsDigit(s[Len(s)])
    THEN Append(TrailingDigits(SubSeq(s, 1, Len(s) - 1)), s[Len(s)])
    ELSE <<>>

RECURSIVE StripLeadingZeros(_)
StripLeadingZeros(ds) ==
    IF Len(ds) > 0 /\ ds[1] = "0" THEN StripLeadingZeros(Tail(ds)) ELSE ds

\* the order of two digit strings of one length
RECURSIVE DigitsLeq(_, _)
DigitsLeq(a, b) ==
    IF a = <<>> THEN TRUE
    ELSE IF DigitVal(a[1]) < DigitVal(b[1]) THEN TRUE
    ELSE IF DigitVal(a[1]) > DigitVal(b[1]) THEN FALSE
    ELSE DigitsLeq(Tail(a), Tail(b))

\* math.MaxInt64, the largest value of Go's int on a 64-bit build
MaxInt64Digits ==
    <<"9", "2", "2", "3", "3", "7", "2", "0", "3", "6",
      "8", "5", "4", "7", "7", "5", "8", "0", "7">>

\* whether strconv.Atoi accepts a non-empty string of digits: its value
\* fits Go's int
fitsInt(d) ==
    \/ Len(d) < Len(MaxInt64Digits)
    \/ Len(d) = Len(MaxInt64Digits) /\ DigitsLeq(d, MaxInt64Digits)

AtoiOK(ds) == fitsInt(StripLeadingZeros(ds))

\* the %d of fmt.Sprintf for a natural number
RECURSIVE Itoa(_)
Itoa(n) ==
    IF n < 10 THEN <<Digits[n + 1]>>
    ELSE Append(Itoa(n \div 10), Digits[(n % 10) + 1])

\* ------------------------------------------------------------------------
\* net/url
\* ------------------------------------------------------------------------

\* url.getScheme: the length of the scheme, 0 when there is none, -1 for the
\* error "missing protocol scheme"
RECURSIVE getScheme(_, _)
getScheme(s, i) ==
    IF i > Len(s) THEN 0
    ELSE IF IsLetter(s[i]) \/ IsUpper(s[i]) THEN getScheme(s, i + 1)
    ELSE IF IsDigit(s[i]) \/ s[i] \in {"+", "-", "."}
         THEN IF i = 1 THEN 0 ELSE getScheme(s, i + 1)
    ELSE IF s[i] = ":"
         THEN IF i = 1 THEN -1 ELSE i - 1
    ELSE 0

\* the part of s before position i, all of s when i = 0
Before(s, i) == IF i = 0 THEN s ELSE SubSeq(s, 1, i - 1)

\* the part of s after position i, nothing when i = 0
After(s, i) == IF i = 0 THEN <<>> ELSE SubSeq(s, i + 1, Len(s))

\* the part of s from position i on, nothing when i = 0
From(s, i) == IF i = 0 THEN <<>> ELSE SubSeq(s, i, Len(s))

\* a url.URL: [ok, Scheme, Opaque, Host, Path, RawQuery, ForceQuery, Fragment,
\* OmitHost]; ok is FALSE when url.Parse returned an error
URL(scheme, opaque, host, path, query, force) ==
    [ok |-> TRUE, Scheme |-> scheme, Opaque |-> opaque, Host |-> host, Path |-> path,
     RawQuery |-> query, ForceQuery |-> force, Fragment |-> <<>>, OmitHost |-> FALSE]

BadURL ==
    [ok |-> FALSE, Scheme |-> <<>>, Opaque |-> <<>>, Host |-> <<>>, Path |-> <<>>,
     RawQuery |-> <<>>, ForceQuery |-> FALSE, Fragment |-> <<>>, OmitHost |-> FALSE]

AllDigits(s) == \A i \in 1..Len(s) : IsDigit(s[i])

\* url.parseHost: what follows the last colon of the host is a port
validHost(host) ==
    \/ LastIndexOf(host, ":") = 0
    \/ AllDigits(After(host, LastIndexOf(host, ":")))

\* url.parse: "//" opens an authority, which ends at the next "/"
parseAuthority(scheme, after, query, force) ==
    IF ~validHost(Before(after, IndexOf(after, "/"))) THEN BadURL
    ELSE URL(scheme, <<>>, Before(after, IndexOf(after, "/")),
             From(after, IndexOf(after, "/")), query, force)

\* url.parse, after the scheme and the query are cut off: a URL with a scheme
\* and no leading slash is opaque; a first path segment with a colon is an
\* error; a scheme followed by one slash has its empty host omitted
parsePath(scheme, rest, query, force) ==
    IF scheme # <<>> /\ ~HasPrefix(rest, <<"/">>)
    THEN URL(scheme, rest, <<>>, <<>>, query, force)
    ELSE IF /\ scheme = <<>>
            /\ ~HasPrefix(rest, <<"/">>)
            /\ IndexOf(Before(rest, IndexOf(rest, "/")), ":") > 0
    THEN BadURL
    ELSE IF /\ HasPrefix(rest, <<"/", "/">>)
            /\ (scheme # <<>> \/ ~HasPrefix(rest, <<"/", "/", "/">>))
    THEN parseAuthority(scheme, SubSeq(rest, 3, Len(rest)), query, force)
    ELSE [URL(scheme, <<>>, <<>>, rest, query, force)
             EXCEPT !.OmitHost = scheme # <<>> /\ HasPrefix(rest, <<"/">>)]

\* url.parse, after getScheme: a single "?" that ends the string forces an
\* empty query, otherwise the query starts at the first "?"
parseQuery(scheme, rest) ==
    IF rest # <<>> /\ IndexOf(rest, "?") = Len(rest)
    THEN parsePath(scheme, SubSeq(rest, 1, Len(rest) - 1), <<>>, TRUE)
    ELSE parsePath(scheme, Before(rest, IndexOf(rest, "?")),
                   After(rest, IndexOf(rest, "?")), FALSE)

\* url.parse on the string without its fragment; the scheme is lower-cased
parseScheme(s, sch) ==
    IF sch = -1 THEN BadURL
    ELSE IF sch = 0 THEN parseQuery(<<>>, s)
    ELSE parseQuery(ToLower(SubSeq(s, 1, sch)), SubSeq(s, sch + 2, Len(s)))

parseNoFragment(s) == parseScheme(s, getScheme(s, 1))

\* url.Parse: the fragment is what follows the first "#"
setFragment(u, frag) == IF u.ok THEN [u EXCEPT !.Fragment = frag] ELSE u

urlParse(raw) ==
    setFragment(parseNoFragment(Before(raw, IndexOf(raw, "#"))),
                After(raw, IndexOf(raw, "#")))

\* url.resolvePath: the loop over the elements of the joined path; str is
\* what has been written after the leading "/", first whether the next
\* element is written without a "/" before it
dotsStr(elem, str, first) ==
    IF elem = <<".">> THEN str
    ELSE IF elem = <<".", ".">>
    THEN IF LastIndexOf(str, "/") = 0 THEN <<>>
         ELSE SubSeq(str, 1, LastIndexOf(str, "/") - 1)
    ELSE IF first THEN str \o elem
    ELSE str \o <<"/">> \o elem

dotsFirst(elem, str, first) ==
    IF elem = <<".">> THEN FALSE
    ELSE IF elem = <<".", ".">>
    THEN IF LastIndexOf(str, "/") = 0 THEN TRUE ELSE first
    ELSE FALSE

RECURSIVE removeDots(_, _, _)
dotsNext(elem, rest, found, str, first) ==
    IF found THEN removeDots(rest, dotsStr(elem, str, first), dotsFirst(elem, str, first))
    ELSE IF elem \in {<<".">>, <<".", ".">>} THEN dotsStr(elem, str, first) \o <<"/">>
    ELSE dotsStr(elem, str, first)

removeDots(remaining, str, first) ==
    dotsNext(Before(remaining, IndexOf(remaining, "/")),
             After(remaining, IndexOf(remaining, "/")),
             IndexOf(remaining, "/") > 0, str, first)

\* url.resolvePath: the reference joined to the directory of the base
joinedPath(base, ref) ==
    IF ref = <<>> THEN base
    ELSE IF ref[1] # "/" THEN SubSeq(base, 1, LastIndexOf(base, "/")) \o ref
    ELSE ref

\* url.resolvePath: one leading "/" is written, a second one is dropped
oneSlash(str) == IF Len(str) > 0 /\ str[1] = "/" THEN str ELSE <<"/">> \o str

cleanPath(full) == IF full = <<>> THEN <<>> ELSE oneSlash(removeDots(full, <<>>, TRUE))

resolvePath(base, ref) == cleanPath(joinedPath(base, ref))

\* URL.ResolveReference
ResolveReference(u, ref) ==
    IF ref.Scheme # <<>> \/ ref.Host # <<>>
    THEN [ref EXCEPT !.Scheme = IF ref.Scheme = <<>> THEN u.Scheme ELSE ref.Scheme,
                     !.Path = resolvePath(ref.Path, <<>>)]
    ELSE IF ref.Opaque # <<>>
    THEN [ref EXCEPT !.Scheme = u.Scheme, !.Host = <<>>, !.Path = <<>>]
    ELSE IF ref.Path = <<>> /\ u.Opaque # <<>>
    THEN [ref EXCEPT !.Scheme = u.Scheme, !.Opaque = u.Opaque, !.Host = <<>>,
                     !.Path = <<>>,
                     !.RawQuery = IF ~ref.ForceQuery /\ ref.RawQuery = <<>>
                                  THEN u.RawQuery ELSE ref.RawQuery,
                     !.Fragment = IF ~ref.ForceQuery /\ ref.RawQuery = <<>>
                                     /\ ref.Fragment = <<>>
                                  THEN u.Fragment ELSE ref.Fragment]
    ELSE [ref EXCEPT !.Scheme = u.Scheme, !.Host = u.Host,
                     !.Path = resolvePath(u.Path, ref.Path),
                     !.RawQuery = IF ref.Path = <<>> /\ ~ref.ForceQuery
                                     /\ ref.RawQuery = <<>>
                                  THEN u.RawQuery ELSE ref.RawQuery,
                     !.Fragment = IF ref.Path = <<>> /\ ~ref.ForceQuery
                                     /\ ref.RawQuery = <<>> /\ ref.Fragment = <<>>
                                  THEN u.Fragment ELSE ref.Fragment]

\* URL.String: scheme, then the opaque part or authority and path, then
\* query and fragment
stringAuthority(u) ==
    IF /\ u.Scheme # <<>> \/ u.Host # <<>>
       /\ ~(u.OmitHost /\ u.Host = <<>>)
       /\ u.Host # <<>> \/ u.Path # <<>>
    THEN <<"/", "/">> \o u.Host
    ELSE <<>>

stringPath(u) ==
    IF u.Path # <<>> /\ u.Path[1] # "/" /\ u.Host # <<>> THEN <<"/">> \o u.Path
    ELSE IF /\ u.Scheme = <<>>
            /\ u.Host = <<>>
            /\ IndexOf(Before(u.Path, IndexOf(u.Path, "/")), ":") > 0
    THEN <<".", "/">> \o u.Path
    ELSE u.Path

stringScheme(u) == IF u.Scheme # <<>> THEN u.Scheme \o <<":">> ELSE <<>>

stringQuery(u) ==
    IF u.ForceQuery \/ u.RawQuery # <<>> THEN <<"?">> \o u.RawQuery ELSE <<>>

\* URL.EscapedFragment: of the characters of the model, "#" is the one a
\* fragment cannot hold as it is; it is written "%23"
RECURSIVE escapedFragment(_)
escapedFragment(frag) ==
    IF frag = <<>> THEN <<>>
    ELSE (IF frag[1] = "#" THEN <<"%", "2", "3">> ELSE <<frag[1]>>)
             \o escapedFragment(Tail(frag))

stringFragment(u) ==
    IF u.Fragment # <<>> THEN <<"#">> \o escapedFragment(u.Fragment) ELSE <<>>

URLString(u) ==
    stringScheme(u)
        \o (IF u.Opaque # <<>> THEN u.Opaque ELSE stringAuthority(u) \o stringPath(u))
        \o stringQuery(u) \o stringFragment(u)

\* ------------------------------------------------------------------------
\* internal/parser: the entries of a playlist
\* ------------------------------------------------------------------------

\* a resolution that puts the query of the base on every entry
alwaysBaseQuery(finalQuery, baseQuery) == baseQuery

\* parseRelativeURL: the query of the base is taken over when the resolved
\* URL has none
inheritQuery(finalQuery, baseQuery) ==
    IF finalQuery = <<>> /\ baseQuery # <<>> THEN baseQuery ELSE finalQuery

withInheritedQuery(finalURL, baseURL) ==
    [finalURL EXCEPT !.RawQuery = inheritQuery(finalURL.RawQuery, baseURL.RawQuery)]

resolveEntry(u, baseURL) ==
    IF ~u.ok THEN [err |-> TRUE, url |-> <<>>]
    ELSE [err |-> FALSE,
          url |-> URLString(withInheritedQuery(ResolveReference(baseURL, u), baseURL))]

\* parseRelativeURL: [err, url]
parseRelativeURL(relativeURL, baseURL) == resolveEntry(urlParse(relativeURL), baseURL)

\* ------------------------------------------------------------------------
\* internal/parser: the identity of a segment
\* ------------------------------------------------------------------------

\* extractSegmentNumber: the digits that end the name, "" when there are none
extractSegmentNumber(name) == TrailingDigits(name)

\* generateSegmentID without a usable number: "{mediaSeq}_{index}"
SequenceIndexID(mediaSeq, index) == Itoa(mediaSeq) \o <<"_">> \o Itoa(index)

\* generateSegmentID on the digits extractSegmentNumber returned: they are
\* the identity, as they are written, when strconv.Atoi accepts them
segmentIDOf(numStr, mediaSeq, index) ==
    IF numStr # <<>> /\ AtoiOK(numStr)
    THEN numStr
    ELSE SequenceIndexID(mediaSeq, index)

\* an identity that never uses the number of the name
generateSegmentIDBySequence(baseNameNoExt, mediaSeq, index) ==
    SequenceIndexID(mediaSeq, index)

\* generateSegmentID
generateSegmentID(baseNameNoExt, mediaSeq, index) ==
    segmentIDOf(extractSegmentNumber(baseNameNoExt), mediaSeq, index)

\* ExtractSegmentID on the base name of the path
segmentIDOfBase(baseName, mediaSeq, index) ==
    IF baseName \in {<<>>, <<".">>, <<"/">>}
    THEN [err |-> "invalid filename", id |-> <<>>]
    ELSE [err |-> "nil",
          id  |-> generateSegmentID(TrimSuffix(baseName, Ext(baseName)),
                                    mediaSeq, index)]

\* ExtractSegmentID on the parsed URL
segmentIDOfURL(parsedURL, mediaSeq, index) ==
    IF ~parsedURL.ok THEN [err |-> "parse", id |-> <<>>]
    ELSE segmentIDOfBase(Base(parsedURL.Path), mediaSeq, index)

\* ExtractSegmentID: [err, id]
ExtractSegmentID(urlStr, mediaSeq, index) ==
    segmentIDOfURL(urlParse(urlStr), mediaSeq, index)

\* ------------------------------------------------------------------------
\* Bounds, configuration and the server's streams
\* ------------------------------------------------------------------------

\* entries of one media playlist (the live window)
Window == 2

\* the largest batch and the largest limits handed to ConcurrentDownload
\* when the engine is checked on its own
MaxBatch == 3
MaxC == 2
MaxR == 2

\* Config of New()
MaxConcurrentDownloads == 8
MaxRetryAttempts == 3

Pre == <<"h", ":", "/", "/", "c", "/">>
TS == <<".", "t", "s">>
Seg(name) == Pre \o name \o TS

BigNum == <<"9", "9", "9", "9", "9", "9", "9", "9", "9", "9",
            "9", "9", "9", "9", "9", "9", "9", "9", "9", "9">>

\* The segment URLs the server publishes, in publication order.
\* 1: numbered names.  2: numbered names whose numbers collide, and a segment
\* published twice.  3: a directory URL, a number beyond int, and names
\* without a number.  4: names without a number, in playlists without the
\* #EXT-X-MEDIA-SEQUENCE tag.
Pools ==
    << <<Seg(<<"a", "1">>), Seg(<<"a", "2">>), Seg(<<"a", "3">>), Seg(<<"a", "4">>)>>,
       <<Seg(<<"a", "1">>), Seg(<<"b", "1">>), Seg(<<"a", "1">>), Seg(<<"a", "2">>)>>,
       <<Pre, Seg(BigNum), Seg(<<"x">>), Seg(<<"y">>)>>,
       <<Seg(<<"x">>), Seg(<<"y">>), Seg(<<"z">>)>> >>

\* the streams whose playlists carry no #EXT-X-MEDIA-SEQUENCE tag
Untagged == {4}

Entry(s, i) == Pools[s][i]

\* the live window slides until it shows the last segment published: the
\* position of the window runs over 0..MaxPos(s)
MaxPos(s) == IF Len(Pools[s]) > Window THEN Len(Pools[s]) - Window ELSE 0

\* the most playlists one stream shows
MaxPlaylists == Len(Pools[1])

\* the media playlist the server serves when the window stands at position
\* p, as Parse returns it: the media sequence is that of the tag, the
\* position of the window, and 0 without the tag (extractMediaSequence)
PlaylistAt(s, p) ==
    [URLs |-> [k \in 1..(IF Window < Len(Pools[s]) THEN Window ELSE Len(Pools[s])) |-> Entry(s, p + k)],
     MediaSequence |-> IF s \in Untagged THEN 0 ELSE p]

AllURLs == UNION {{Pools[s][i] : i \in 1..Len(Pools[s])} : s \in 1..Len(Pools)}

\* a URL url.Parse rejects: "missing protocol scheme"
BadSegURL == <<":", "x">>

\* the URLs of the batches handed to ConcurrentDownload when the engine is
\* checked on its own
EngineURLs == <<Seg(<<"a", "1">>), BadSegURL, Seg(<<"x">>)>>

KnownURLs == AllURLs \cup {EngineURLs[i] : i \in 1..Len(EngineURLs)}

\* url.Parse on every URL of the model
ParsedURLs == [u \in KnownURLs |-> urlParse(u)]

\* ExtractSegmentID on every URL of the model, at every media sequence and
\* every index a playlist of the model gives it
SegmentIDs ==
    [u \in KnownURLs |->
        [q \in 0..MaxPlaylists |->
            [i \in 0..MaxPlaylists |-> ExtractSegmentID(u, q, i)]]]

\* ------------------------------------------------------------------------
\* State
\* ------------------------------------------------------------------------

VARIABLES
    stream,         \* which stream the server publishes
    pos,            \* the position of the server's live window
    opc,            \* processM3U8: "fetch", "parsed" or "download"; "sleep"
    target,         \* processM3U8: its argument m3u8URL
    playlist,       \* processM3U8: the playlist Parse returned
    downloaded,     \* HLSDownloader.downloaded: the identities marked
    cycleErr,       \* what the last processM3U8 returned
    now,            \* the clock read by generateFilename
    urls,           \* ConcurrentDownload: the batch
    maxConcurrent,  \* ConcurrentDownload: cap(sem)
    maxRetries,     \* ConcurrentDownload: the retry budget
    epc,            \* ConcurrentDownload: "idle", "loop", "send" or "done"
    di,             \* ConcurrentDownload: the loop index i
    sem,            \* len(sem)
    wg,             \* the WaitGroup counter
    errChan,        \* the errors sent on errChan, in order
    ret,            \* what ConcurrentDownload returned
    wpc,            \* per task: where its goroutine stands
    wtry,           \* per task: downloadFileWithRetry's loop index i
    hist,           \* per task: the outcome of each attempt, in order
    nreq,           \* per task: the HTTP requests that were answered
    fname,          \* per task: the destination generateFilename returned
    disk,           \* the files of the output directory
    seen,           \* the URLs of the media playlists parsed so far
    dispatchLog,    \* every (identity, URL) filterNewSegments returned
    filtered,       \* the arguments of every filterNewSegments call so far
    lastFilter,     \* the last filterNewSegments call: repeat, newURLs
    arg,            \* a function called on its own: its name and arguments
    res             \* a function called on its own: what it returned

orchVars == <<opc, target, playlist, downloaded, cycleErr, seen, dispatchLog, filtered,
             lastFilter>>
callVars == <<urls, maxConcurrent, maxRetries>>
engVars  == <<epc, di, sem, wg, errChan, ret>>
taskVars == <<wpc, wtry, hist, nreq, fname>>
fnVars   == <<arg, res>>
vars == <<stream, pos, now, disk, orchVars, callVars, engVars, taskVars, fnVars>>

Tasks == DOMAIN wpc

NoTasks == [i \in {} |-> "idle"]

\* no function is called on its own; the call has not returned
NoCall == [fn |-> "none"]
NoResult == [fn |-> "none"]

\* ------------------------------------------------------------------------
\* internal/downloader: filtering against the ledger
\* ------------------------------------------------------------------------

\* a processSegmentURL that skips nothing
neverSkip(r) == [skip |-> FALSE, id |-> r.id]

\* processSegmentURL: [skip, id]
skipOrID(r) ==
    IF r.err # "nil" THEN [skip |-> TRUE, id |-> <<>>]
    ELSE IF r.id = <<>> THEN [skip |-> TRUE, id |-> <<>>]
    ELSE [skip |-> FALSE, id |-> r.id]

processSegmentURL(urlStr, mediaSeq, index) ==
    skipOrID(SegmentIDs[urlStr][mediaSeq][index])

\* a ledger that is never written
MarkNothing(ledger, segmentID) == ledger

\* a ledger that holds the latest identity only
MarkLatestOnly(ledger, segmentID) == {segmentID}

\* the ledger after an identity has been selected
Mark(ledger, segmentID) == ledger \cup {segmentID}

\* one round of the loop of filterNewSegments, on entry k (index k - 1);
\* acc is [newURLs, newIDs, downloaded]
\* the body of the loop once processSegmentURL has returned p for urlStr
Select(acc, urlStr, p) ==
    IF p.skip THEN acc
    ELSE IF p.id \in acc.downloaded THEN acc
    ELSE [newURLs    |-> Append(acc.newURLs, urlStr),
          newIDs     |-> Append(acc.newIDs, p.id),
          downloaded |-> Mark(acc.downloaded, p.id)]

\* a loop that looks the identity up in the ledger as it was before the call
SelectStale(acc, urlStr, p) ==
    IF p.skip THEN acc
    ELSE IF p.id \in downloaded THEN acc
    ELSE [newURLs    |-> Append(acc.newURLs, urlStr),
          newIDs     |-> Append(acc.newIDs, p.id),
          downloaded |-> Mark(acc.downloaded, p.id)]

FilterStepStale(acc, tsURLs, mediaSeq, k) ==
    SelectStale(acc, tsURLs[k], processSegmentURL(tsURLs[k], mediaSeq, k - 1))

FilterStep(acc, tsURLs, mediaSeq, k) ==
    Select(acc, tsURLs[k], processSegmentURL(tsURLs[k], mediaSeq, k - 1))

RECURSIVE FilterLoop(_, _, _, _)
FilterLoop(acc, tsURLs, mediaSeq, k) ==
    IF k > Len(tsURLs) THEN acc
    ELSE FilterLoop(FilterStep(acc, tsURLs, mediaSeq, k), tsURLs, mediaSeq, k + 1)

\* filterNewSegments: the URLs to download, their identities, and the ledger
\* it leaves
filterNewSegments(tsURLs, mediaSeq, ledger) ==
    FilterLoop([newURLs |-> <<>>, newIDs |-> <<>>, downloaded |-> ledger],
               tsURLs, mediaSeq, 1)

\* ------------------------------------------------------------------------
\* internal/parser: Parse
\* ------------------------------------------------------------------------

\* Parse returns (nil, err)
ParseFailed == [err |-> TRUE, IsMaster |-> FALSE, URLs |-> <<>>, MediaSequence |-> 0]

\* A document is [streamInf, extInf, seq, scanErr, urls]: whether it holds
\* the #EXT-X-STREAM-INF and the #EXTINF marker, its media sequence, whether
\* extractURLsFromContent returns an error on it, and its entries resolved
\* against the base URL.
\* Parse, for a base URL url.Parse accepts: [err, IsMaster, URLs, MediaSequence]
Parse(doc) ==
    IF doc.streamInf /\ doc.extInf
    THEN IF doc.scanErr THEN ParseFailed
         ELSE [err |-> FALSE, IsMaster |-> FALSE, URLs |-> doc.urls,
               MediaSequence |-> doc.seq]
    ELSE IF ~doc.streamInf /\ ~doc.extInf
    THEN ParseFailed
    ELSE IF doc.scanErr THEN ParseFailed
    ELSE [err |-> FALSE, IsMaster |-> doc.streamInf, URLs |-> doc.urls,
          MediaSequence |-> doc.seq]

\* The text of a document is the sequence of its lines, and a line is a
\* sequence of characters.  Two elements stand for many characters: LongRun
\* for MaxScanTokenSize letters "a" in a row, NearRun for one letter less.
\* No marker and no tag holds an "a", so a match never begins or ends
\* inside a run.

\* bufio.MaxScanTokenSize, the size the buffer of bufio.NewScanner grows to
MaxScanTokenSize == 65536

LongRun == "a * 65536"
NearRun == "a * 65535"

\* the bytes an element of a line stands for
bytesOf(c) ==
    IF c = LongRun THEN MaxScanTokenSize
    ELSE IF c = NearRun THEN MaxScanTokenSize - 1
    ELSE 1

RECURSIVE lineBytes(_)
lineBytes(str) == IF str = <<>> THEN 0 ELSE bytesOf(str[1]) + lineBytes(Tail(str))

\* bufio.Scanner with bufio.ScanLines: Scan stops with ErrTooLong at a line
\* that fills the buffer before its line break is read, a line of
\* MaxScanTokenSize bytes or more
tokenTooLong(line) == lineBytes(line) >= MaxScanTokenSize

\* scanner.Err() after the loop of extractURLsFromContent is not nil
scannerErr(content) == \E k \in 1..Len(content) : tokenTooLong(content[k])

StreamInfTag == <<"#", "E", "X", "T", "-", "X", "-", "S", "T", "R", "E", "A", "M", "-", "I", "N", "F">>
ExtInfTag == <<"#", "E", "X", "T", "I", "N", "F">>
MediaSequenceTag ==
    <<"#", "E", "X", "T", "-", "X", "-", "M", "E", "D", "I", "A", "-", "S", "E", "Q", "U", "E", "N", "C", "E", ":">>

\* strings.Contains on one line
Contains(str, sub) ==
    \E i \in 1..(Len(str) - Len(sub) + 1) : SubSeq(str, i, i + Len(sub) - 1) = sub

\* strings.Contains(content, tag) for a tag without a line break
contentContains(content, tag) == \E k \in 1..Len(content) : Contains(content[k], tag)

\* strconv.Atoi on a string of digits that fits int
RECURSIVE atoiValue(_)
atoiValue(ds) ==
    IF ds = <<>> THEN 0 ELSE 10 * atoiValue(SubSeq(ds, 1, Len(ds) - 1)) + DigitVal(ds[Len(ds)])

\* the digits that stand in str from position i on
RECURSIVE digitsAt(_, _)
digitsAt(str, i) ==
    IF i <= Len(str) /\ IsDigit(str[i]) THEN <<str[i]>> \o digitsAt(str, i + 1) ELSE <<>>

\* mediaSequenceRegex matches in str at position i: the tag and a digit
sequenceAt(str, i) ==
    /\ i + Len(MediaSequenceTag) <= Len(str)
    /\ SubSeq(str, i, i + Len(MediaSequenceTag) - 1) = MediaSequenceTag
    /\ IsDigit(str[i + Len(MediaSequenceTag)])

firstSequenceAt(str) ==
    CHOOSE i \in 1..Len(str) : sequenceAt(str, i) /\ \A j \in 1..(i - 1) : ~sequenceAt(str, j)

sequenceLines(content) ==
    {k \in 1..Len(content) : \E i \in 1..Len(content[k]) : sequenceAt(content[k], i)}

firstSequenceLine(content) ==
    content[CHOOSE k \in sequenceLines(content) : \A j \in sequenceLines(content) : k <= j]

sequenceOfDigits(ds) == IF AtoiOK(ds) THEN atoiValue(ds) ELSE 0

sequenceOfLine(str) ==
    sequenceOfDigits(digitsAt(str, firstSequenceAt(str) + Len(MediaSequenceTag)))

\* extractMediaSequence: the number of the first match, 0 without a match or
\* with a number beyond int
extractMediaSequence(content) ==
    IF sequenceLines(content) = {} THEN 0 ELSE sequenceOfLine(firstSequenceLine(content))

\* strings.TrimSpace
RECURSIVE trimLeft(_)
trimLeft(str) == IF str # <<>> /\ str[1] = " " THEN trimLeft(Tail(str)) ELSE str

RECURSIVE trimRight(_)
trimRight(str) ==
    IF str # <<>> /\ str[Len(str)] = " " THEN trimRight(SubSeq(str, 1, Len(str) - 1)) ELSE str

TrimSpace(str) == trimRight(trimLeft(str))

\* extractURLsFromContent, one line: a comment, an empty line and a line
\* parseRelativeURL rejects add nothing
appendEntry(urlList, r) == IF r.err THEN urlList ELSE Append(urlList, r.url)

urlsWithLine(urlList, line, baseURL) ==
    IF line = <<>> \/ HasPrefix(line, <<"#">>) THEN urlList
    ELSE appendEntry(urlList, parseRelativeURL(line, baseURL))

\* extractURLsFromContent: the loop over the lines scanner.Scan() gives
RECURSIVE scannedURLs(_, _)
scannedURLs(content, baseURL) ==
    IF content = <<>> THEN <<>>
    ELSE urlsWithLine(scannedURLs(SubSeq(content, 1, Len(content) - 1), baseURL),
                      TrimSpace(content[Len(content)]), baseURL)

\* extractURLsFromContent: [err, urls]; the entries read before a line that
\* is too long are dropped with the error
extractURLsFromContent(content, baseURL) ==
    IF scannerErr(content) THEN [err |-> TRUE, urls |-> <<>>]
    ELSE [err |-> FALSE, urls |-> scannedURLs(content, baseURL)]

\* the document Parse reads out of a text
docOf(content, base) ==
    [streamInf |-> contentContains(content, StreamInfTag),
     extInf |-> contentContains(content, ExtInfTag),
     seq |-> extractMediaSequence(content),
     scanErr |-> extractURLsFromContent(content, base).err,
     urls |-> extractURLsFromContent(content, base).urls]

\* Parse: no marker, a base URL url.Parse rejects, or an error of
\* extractURLsFromContent make it fail
parseWithBase(content, base) ==
    IF ~contentContains(content, StreamInfTag) /\ ~contentContains(content, ExtInfTag)
    THEN ParseFailed
    ELSE IF ~base.ok THEN ParseFailed
    ELSE Parse(docOf(content, base))

\* Parse(content, baseURL) on a text
ParseContent(content, baseURL) == parseWithBase(content, urlParse(baseURL))

\* the argument of Start, and the entries of the master playlist
TopURL == Pre \o <<"t">>
MediaListURL == Pre \o <<"m">>
AltListURL == Pre \o <<"n">>

\* what the server may answer to a playlist request while the window stands
\* at position p: the media playlist, with or without the marker of a master
\* playlist and with or without a line that is too long for the scanner, a
\* master playlist, a document without a marker
Docs(s, p) ==
    {[streamInf |-> m, extInf |-> TRUE, seq |-> PlaylistAt(s, p).MediaSequence,
      scanErr |-> e, urls |-> PlaylistAt(s, p).URLs] : m \in BOOLEAN, e \in BOOLEAN}
       \cup {[streamInf |-> TRUE, extInf |-> FALSE, seq |-> 0, scanErr |-> FALSE, urls |-> u]
            : u \in {<<>>, <<MediaListURL, AltListURL>>}}
       \cup {[streamInf |-> FALSE, extInf |-> FALSE, seq |-> 0, scanErr |-> FALSE,
              urls |-> <<>>]}

\* ------------------------------------------------------------------------
\* internal/downloader: the polling loop
\* ------------------------------------------------------------------------

NoErr == [task |-> -1, kind |-> "nil"]
NotReturned == [task |-> -1, kind |-> "none"]

\* processM3U8 holds no playlist
NoPlaylist == [err |-> TRUE, IsMaster |-> FALSE, URLs |-> <<>>, MediaSequence |-> 0]

\* a loop that returns when processM3U8 returned an error
StopOnError(e) == IF e = "nil" THEN "sleep" ELSE "returned"

\* loopDownloadHLS: whatever processM3U8 returned, the error is logged at
\* most and the loop goes on to time.Sleep
AfterCycle(e) == "sleep"

\* the end of a cycle that dispatched nothing
EndCycle(e) ==
    /\ opc' = AfterCycle(e)
    /\ target' = TopURL
    /\ playlist' = NoPlaylist
    /\ cycleErr' = e

\* processM3U8: utils.HTTPGet fails
FetchFail ==
    /\ opc = "fetch"
    /\ EndCycle("fetch")
    /\ UNCHANGED <<fnVars, stream, pos, now, disk, downloaded, seen, dispatchLog, filtered,
                   lastFilter, callVars, engVars, taskVars>>

\* processM3U8: Parse returns an error
ParseFail ==
    /\ opc = "fetch"
    /\ \E doc \in Docs(stream, pos) :
          /\ Parse(doc).err
          /\ EndCycle("parse")
    /\ UNCHANGED <<fnVars, stream, pos, now, disk, downloaded, seen, dispatchLog, filtered,
                   lastFilter, callVars, engVars, taskVars>>

\* processM3U8: utils.HTTPGet and Parse return the playlist of doc
Parsed(doc) ==
    /\ opc = "fetch"
    /\ ~Parse(doc).err
    /\ opc' = "parsed"
    /\ playlist' = Parse(doc)
    /\ UNCHANGED <<fnVars, stream, pos, now, disk, target, downloaded, cycleErr, seen,
                   dispatchLog, filtered, lastFilter, callVars, engVars, taskVars>>

FetchParse == \E doc \in Docs(stream, pos) : Parsed(doc)

\* a redirection to the last entry of the master playlist
LastEntry(entries) == entries[Len(entries)]

\* processM3U8: selectedMediaURL := playlist.URLs[0]
SelectedEntry(entries) == entries[1]

\* processM3U8: a master playlist without entries
MasterEmpty ==
    /\ opc = "parsed"
    /\ playlist.IsMaster
    /\ Len(playlist.URLs) = 0
    /\ EndCycle("master")
    /\ UNCHANGED <<fnVars, stream, pos, now, disk, downloaded, seen, dispatchLog, filtered,
                   lastFilter, callVars, engVars, taskVars>>

\* processM3U8: a master playlist: the call on its first entry
MasterRedirect ==
    /\ opc = "parsed"
    /\ playlist.IsMaster
    /\ Len(playlist.URLs) > 0
    /\ opc' = "fetch"
    /\ target' = SelectedEntry(playlist.URLs)
    /\ playlist' = NoPlaylist
    /\ UNCHANGED <<fnVars, stream, pos, now, disk, downloaded, cycleErr, seen,
                   dispatchLog, filtered, lastFilter, callVars, engVars, taskVars>>

\* the (identity, URL) pairs of a filterNewSegments result
Pairs(f) == [k \in 1..Len(f.newURLs) |-> [id |-> f.newIDs[k], url |-> f.newURLs[k]]]

\* the state of a ConcurrentDownload call at its first statement
StartEngine(batch, c, r) ==
    /\ urls' = batch
    /\ maxConcurrent' = c
    /\ maxRetries' = r
    /\ epc' = "loop"
    /\ di' = 0
    /\ sem' = 0
    /\ wg' = 0
    /\ errChan' = <<>>
    /\ ret' = NotReturned
    /\ wpc' = [i \in 0..(Len(batch) - 1) |-> "idle"]
    /\ wtry' = [i \in 0..(Len(batch) - 1) |-> 0]
    /\ hist' = [i \in 0..(Len(batch) - 1) |-> <<>>]
    /\ nreq' = [i \in 0..(Len(batch) - 1) |-> 0]
    /\ fname' = [i \in 0..(Len(batch) - 1) |-> <<>>]

\* processM3U8 once filterNewSegments has returned f for the playlist: the
\* cycle ends when f holds no URL, concurrentDownload is called otherwise
Filtered(pl, f) ==
    /\ downloaded' = f.downloaded
    /\ seen' = seen \cup {pl.URLs[k] : k \in 1..Len(pl.URLs)}
    /\ dispatchLog' = dispatchLog \o Pairs(f)
    /\ filtered' = filtered \cup {<<pl.URLs, pl.MediaSequence>>}
    /\ lastFilter' = [repeat  |-> <<pl.URLs, pl.MediaSequence>> \in filtered,
                      newURLs |-> f.newURLs]
    /\ IF Len(f.newURLs) = 0
       THEN /\ EndCycle("nil")
            /\ UNCHANGED <<callVars, engVars, taskVars>>
       ELSE /\ opc' = "download"
            /\ target' = TopURL
            /\ playlist' = NoPlaylist
            /\ cycleErr' = "running"
            /\ StartEngine(f.newURLs, MaxConcurrentDownloads, MaxRetryAttempts)

\* processM3U8 once Parse has returned a media playlist
ProcessMedia(pl) ==
    Filtered(pl, filterNewSegments(pl.URLs, pl.MediaSequence, downloaded))

\* processM3U8: a media playlist: filterNewSegments, then concurrentDownload
\* when it returned something
MediaPlaylist ==
    /\ opc = "parsed"
    /\ ~playlist.IsMaster
    /\ ProcessMedia(playlist)
    /\ UNCHANGED <<fnVars, stream, pos, now, disk>>

\* a ledger that forgets its marks when the batch failed
ledgerForgottenOnError(ledger, err) == IF err = NoErr THEN ledger ELSE {}

\* a ledger that keeps, when the batch returns, only the identities whose
\* segment has a file in the output directory
ledgerOfTransferred(ledger, err) ==
    {id \in ledger :
        \E i \in 1..Len(dispatchLog) :
            /\ dispatchLog[i].id = id
            /\ \E f \in disk : f.url = dispatchLog[i].url}

\* processM3U8 after concurrentDownload returned err: the ledger stays as
\* filterNewSegments left it, whatever err is
ledgerAfterBatch(ledger, err) == ledger

\* processM3U8 returns what concurrentDownload returned
BatchReturn ==
    /\ opc = "download"
    /\ epc = "done"
    /\ opc' = AfterCycle(IF ret = NoErr THEN "nil" ELSE "download")
    /\ cycleErr' = IF ret = NoErr THEN "nil" ELSE "download"
    /\ downloaded' = ledgerAfterBatch(downloaded, ret)
    /\ UNCHANGED <<fnVars, stream, pos, now, disk, target, playlist, seen,
                   dispatchLog, filtered, lastFilter, callVars, engVars, taskVars>>

\* The clock counts the polling intervals in which files were named; an
\* interval in which generateFilename did not run leaves nothing of its time in
\* the program.  A playlist filtered again gives no batch, so the clock does
\* not run out before the batches do.
MaxClock == MaxPlaylists

\* loopDownloadHLS: time.Sleep(DownloadInterval), then the next cycle
Sleep ==
    /\ opc = "sleep"
    /\ opc' = "fetch"
    /\ now' = IF epc = "done" /\ now < MaxClock THEN now + 1 ELSE now
    /\ urls' = <<>>
    /\ epc' = "idle"
    /\ di' = 0
    /\ errChan' = <<>>
    /\ ret' = NotReturned
    /\ wpc' = NoTasks
    /\ wtry' = NoTasks
    /\ hist' = NoTasks
    /\ nreq' = NoTasks
    /\ fname' = NoTasks
    /\ UNCHANGED <<fnVars, stream, pos, disk, target, playlist, downloaded, cycleErr, seen,
                   dispatchLog, filtered, lastFilter, maxConcurrent, maxRetries, sem, wg>>

\* The server publishes a segment: the live window slides by one.  The
\* program reads the window only when it fetches, so the slides since the last
\* fetch are taken while the loop sleeps.
ServerAdvance ==
    /\ opc = "sleep"
    /\ pos < MaxPos(stream)
    /\ pos' = pos + 1
    /\ UNCHANGED <<fnVars, stream, now, disk, orchVars, callVars, engVars, taskVars>>

\* ------------------------------------------------------------------------
\* internal/storage: the download engine
\* ------------------------------------------------------------------------

\* generateFilename: [err, name]; the name is the clock reading, the index
\* and the base name, which is made to end in ".ts"
withTS(baseFilename) ==
    IF HasSuffix(baseFilename, TS) THEN baseFilename ELSE baseFilename \o TS

filenameOf(parsedURL, index) ==
    IF ~parsedURL.ok THEN [err |-> TRUE, name |-> <<>>]
    ELSE [err |-> FALSE, name |-> <<now, index, withTS(Base(parsedURL.Path))>>]

generateFilename(tsURL, index) == filenameOf(ParsedURLs[tsURL], index)

\* the flag 0 and the width of a fmt verb: zeros before the digits up to the
\* width, the digits alone when they are as long or longer
RECURSIVE padZeros(_, _)
padZeros(ds, width) ==
    IF Len(ds) >= width THEN ds ELSE padZeros(<<"0">> \o ds, width)

\* time.Now().Format("20060102_150405") when the clock reads t seconds after
\* 2006-01-02 15:04:00, for t below 60
timeFormat(t) ==
    <<"2", "0", "0", "6", "0", "1", "0", "2", "_", "1", "5", "0", "4">>
        \o padZeros(Itoa(t), 2)

\* fmt.Sprintf("%s_%05d_%s", timestamp, index, baseFilename) on the three
\* fields of a name
uniqueFilename(name) ==
    timeFormat(name[1]) \o <<"_">> \o padZeros(Itoa(name[2]), 5) \o <<"_">> \o name[3]

\* os.Stat(filepath) finds the file
Exists(name) == \E f \in disk : f.name = name

\* DeriveOutputDir: [err, dir]

\* the function given to strings.Map
safeRune(r) ==
    IF IsLetter(r) \/ IsUpper(r) \/ IsDigit(r) \/ r = "-" \/ r = "_" THEN r ELSE "_"

safeName(baseName) == [i \in 1..Len(baseName) |-> safeRune(baseName[i])]

\* strings.ReplaceAll for one-character strings
ReplaceAll(str, old, new) ==
    [i \in 1..Len(str) |-> IF str[i] = old THEN new ELSE str[i]]

HLSSegments ==
    <<"_", "h", "l", "s", "_", "s", "e", "g", "m", "e", "n", "t", "s">>

outputDirOfName(filename, host) ==
    IF filename = <<>> \/ filename = <<".">> \/ filename = <<"/">>
    THEN ReplaceAll(host, ".", "_") \o HLSSegments
    ELSE safeName(TrimSuffix(filename, Ext(filename))) \o HLSSegments

outputDirOf(parsedURL) ==
    IF ~parsedURL.ok THEN [err |-> TRUE, dir |-> <<>>]
    ELSE [err |-> FALSE, dir |-> outputDirOfName(Base(parsedURL.Path), parsedURL.Host)]

DeriveOutputDir(hlsURL) == outputDirOf(urlParse(hlsURL))

\* a semaphore made as large as the batch
SemCapOfBatch(c, n) == n

\* make(chan struct{}, maxConcurrent): the capacity of sem
SemCap(c, n) == c

\* a loop that stops dispatching once an error has been reported
LoopDoneOnError(i, n, errs) == i >= n \/ errs # <<>>

\* the range loop over urls has run out
LoopDone(i, n, errs) == i >= n

\* a call that does not wait for the goroutines
WaitReturnsAtOnce(counter) == TRUE

\* wg.Wait() returns
WaitReturns(counter) == counter = 0

\* a retry loop that runs one round too many
MoreAttemptsOffByOne(i, r) == i <= r

\* the loop of downloadFileWithRetry goes into round i
MoreAttempts(i, r) == i < r

\* a call that drops the errors of its tasks
FirstErrorDropped(errs) == NoErr

\* the range over the closed errChan: its first error, nil when it is empty
FirstError(errs) == IF errs = <<>> THEN NoErr ELSE Head(errs)

\* an error channel with one slot
ErrChanCapOne(n) == 1

\* make(chan error, len(urls)): the capacity of errChan
ErrChanCap(n) == n

\* ConcurrentDownload: wg.Add(1) of one round of the loop; the loop then
\* stands at the send on sem
WgAdd ==
    /\ epc = "loop"
    /\ ~LoopDone(di, Len(urls), errChan)
    /\ wg' = wg + 1
    /\ epc' = "send"
    /\ UNCHANGED <<fnVars, stream, pos, now, disk, orchVars, callVars, di, sem, errChan, ret,
                   taskVars>>

\* ConcurrentDownload: sem <- struct{}{}, which waits while sem is full, and
\* the go statement of one round of the loop
Dispatch ==
    /\ epc = "send"
    /\ sem < SemCap(maxConcurrent, Len(urls))
    /\ sem' = sem + 1
    /\ wpc' = [wpc EXCEPT ![di] = "gen"]
    /\ di' = di + 1
    /\ epc' = "loop"
    /\ UNCHANGED <<fnVars, stream, pos, now, disk, orchVars, callVars, wg, errChan, ret,
                   wtry, hist, nreq, fname>>

\* the goroutine's call of generateFilename
Named(w, g) ==
    /\ fname' = [fname EXCEPT ![w] = g.name]
    /\ wpc' = [wpc EXCEPT ![w] =
                  IF g.err \/ ~MoreAttempts(0, maxRetries) THEN "report" ELSE "try"]

GenerateFilename(w) ==
    /\ wpc[w] = "gen"
    /\ Named(w, generateFilename(urls[w + 1], w))
    /\ UNCHANGED <<fnVars, stream, pos, now, disk, orchVars, callVars, engVars, wtry, hist, nreq>>

\* downloadFileWithRetry after downloadSingleFile returned in round wtry[w]:
\* return on success, sleep and go on while rounds are left, give up otherwise
AttemptReturns(w, ok) ==
    /\ hist' = [hist EXCEPT ![w] = Append(@, ok)]
    /\ wtry' = [wtry EXCEPT ![w] = IF ok THEN @ ELSE @ + 1]
    /\ wpc' = [wpc EXCEPT ![w] =
                  IF ok THEN "release"
                  ELSE IF MoreAttempts(wtry[w] + 1, maxRetries) THEN "try"
                  ELSE "report"]
    /\ UNCHANGED <<fnVars, stream, pos, now, orchVars, callVars, engVars, fname>>

\* downloadSingleFile returns before it has created a file: http.Get has
\* returned, and with it one more request
AfterAttempt(w, ok) ==
    /\ AttemptReturns(w, ok)
    /\ nreq' = [nreq EXCEPT ![w] = @ + 1]

\* downloadSingleFile: http.Get returns an error
AttemptGetFail(w) ==
    /\ wpc[w] = "try"
    /\ AfterAttempt(w, FALSE)
    /\ UNCHANGED disk

\* downloadSingleFile: the status is not 200
AttemptBadStatus(w) ==
    /\ wpc[w] = "try"
    /\ AfterAttempt(w, FALSE)
    /\ UNCHANGED disk

\* downloadSingleFile: the answer is 200 and os.Stat finds the file
AttemptExists(w) ==
    /\ wpc[w] = "try"
    /\ Exists(fname[w])
    /\ AfterAttempt(w, TRUE)
    /\ UNCHANGED disk

\* downloadSingleFile: os.Create fails
AttemptCreateFail(w) ==
    /\ wpc[w] = "try"
    /\ ~Exists(fname[w])
    /\ AfterAttempt(w, FALSE)
    /\ UNCHANGED disk

\* the file of task w as os.Create leaves it, and once io.Copy has written
\* the whole body
FileOf(w, complete) == [name |-> fname[w], url |-> urls[w + 1], complete |-> complete]

\* downloadSingleFile: the answer is 200, os.Stat finds no file and
\* os.Create makes it; the goroutine then stands in io.Copy
AttemptCreate(w) ==
    /\ wpc[w] = "try"
    /\ ~Exists(fname[w])
    /\ wpc' = [wpc EXCEPT ![w] = "copy"]
    /\ nreq' = [nreq EXCEPT ![w] = @ + 1]
    /\ disk' = disk \cup {FileOf(w, FALSE)}
    /\ UNCHANGED <<fnVars, stream, pos, now, orchVars, callVars, engVars, wtry, hist, fname>>

\* downloadSingleFile: io.Copy fails, the file stays as far as it was written
AttemptCopyFail(w) ==
    /\ wpc[w] = "copy"
    /\ AttemptReturns(w, FALSE)
    /\ UNCHANGED <<nreq, disk>>

\* downloadSingleFile: the body is copied into the new file
AttemptOK(w) ==
    /\ wpc[w] = "copy"
    /\ AttemptReturns(w, TRUE)
    /\ disk' = (disk \ {FileOf(w, FALSE)}) \cup {FileOf(w, TRUE)}
    /\ UNCHANGED nreq

\* the goroutine sends its error on errChan, which holds len(urls) errors
Report(w) ==
    /\ wpc[w] = "report"
    /\ Len(errChan) < ErrChanCap(Len(urls))
    /\ errChan' = Append(errChan,
                         [task |-> w,
                          kind |-> IF fname[w] = <<>> THEN "filename" ELSE "retries"])
    /\ wpc' = [wpc EXCEPT ![w] = "release"]
    /\ UNCHANGED <<fnVars, stream, pos, now, disk, orchVars, callVars, epc, di, sem, wg, ret,
                   wtry, hist, nreq, fname>>

\* the deferred <-sem
Release(w) ==
    /\ wpc[w] = "release"
    /\ sem' = sem - 1
    /\ wpc' = [wpc EXCEPT ![w] = "wgdone"]
    /\ UNCHANGED <<fnVars, stream, pos, now, disk, orchVars, callVars, epc, di, wg, errChan,
                   ret, wtry, hist, nreq, fname>>

\* the deferred wg.Done()
Done(w) ==
    /\ wpc[w] = "wgdone"
    /\ wg' = wg - 1
    /\ wpc' = [wpc EXCEPT ![w] = "exit"]
    /\ UNCHANGED <<fnVars, stream, pos, now, disk, orchVars, callVars, epc, di, sem, errChan,
                   ret, wtry, hist, nreq, fname>>

\* ConcurrentDownload: the loop has ended, wg.Wait() returns, errChan is
\* closed and its first error, or nil, is returned
WaitAndReturn ==
    /\ epc = "loop"
    /\ LoopDone(di, Len(urls), errChan)
    /\ WaitReturns(wg)
    /\ epc' = "done"
    /\ ret' = FirstError(errChan)
    /\ UNCHANGED <<fnVars, stream, pos, now, disk, orchVars, callVars, di, sem, wg, errChan,
                   taskVars>>

Worker(w) ==
    \/ GenerateFilename(w)
    \/ AttemptGetFail(w)
    \/ AttemptBadStatus(w)
    \/ AttemptExists(w)
    \/ AttemptCreateFail(w)
    \/ AttemptCreate(w)
    \/ AttemptCopyFail(w)
    \/ AttemptOK(w)
    \/ Report(w)
    \/ Release(w)
    \/ Done(w)

Engine ==
    \/ WgAdd
    \/ Dispatch
    \/ WaitAndReturn
    \/ \E w \in Tasks : Worker(w)

Orchestrator ==
    \/ FetchFail
    \/ ParseFail
    \/ FetchParse
    \/ MasterEmpty
    \/ MasterRedirect
    \/ MediaPlaylist
    \/ BatchReturn
    \/ Sleep

\* ------------------------------------------------------------------------
\* Specifications
\* ------------------------------------------------------------------------

\* Start(): the ledger of New() is empty, the output directory is new
Constructed ==
    /\ pos = 0
    /\ opc = "fetch"
    /\ target = TopURL
    /\ playlist = NoPlaylist
    /\ downloaded = {}
    /\ cycleErr = "nil"
    /\ now = 0
    /\ disk = {}
    /\ urls = <<>>
    /\ maxConcurrent = MaxConcurrentDownloads
    /\ maxRetries = MaxRetryAttempts
    /\ epc = "idle"
    /\ di = 0
    /\ sem = 0
    /\ wg = 0
    /\ errChan = <<>>
    /\ ret = NotReturned
    /\ wpc = NoTasks
    /\ wtry = NoTasks
    /\ hist = NoTasks
    /\ nreq = NoTasks
    /\ fname = NoTasks
    /\ seen = {}
    /\ dispatchLog = <<>>
    /\ filtered = {}
    /\ lastFilter = [repeat |-> FALSE, newURLs |-> <<>>]

Init ==
    /\ stream \in 1..Len(Pools)
    /\ arg = NoCall
    /\ res = NoResult
    /\ Constructed

Next == Orchestrator \/ Engine \/ ServerAdvance

\* the program: Start on a new downloader
Spec == Init /\ [][Next]_vars

\* The program, on the stream of numbered names, under the scheduling the Go
\* runtime gives it and with failures that are transient: the loop and every
\* started goroutine keep taking steps, a playlist request that is sent again
\* and again is answered with the media playlist again and again, and
\* transfers that are tried again and again succeed again and again.
FairInit == Init /\ stream = 1

FairSpec ==
    /\ FairInit
    /\ [][Next]_vars
    /\ WF_vars(Orchestrator)
    /\ WF_vars(Engine)
    /\ SF_vars(\E doc \in Docs(stream, pos) : ~Parse(doc).IsMaster /\ Parsed(doc))
    /\ SF_vars(\E w \in Tasks : AttemptCreate(w))
    /\ SF_vars(\E w \in Tasks : AttemptOK(w))

\* The program on the stream of numbered names when every call returns: the
\* loop and every started goroutine keep taking steps, so each HTTPGet and
\* each transfer attempt returns; what they return is left to the server.
ReturningSpec ==
    /\ FairInit
    /\ [][Next]_vars
    /\ WF_vars(Orchestrator)
    /\ WF_vars(Engine)

\* the batches handed to ConcurrentDownload: of every length up to MaxBatch
EngineBatches ==
    {[k \in 1..n |-> EngineURLs[((k - 1) % Len(EngineURLs)) + 1]] : n \in 0..MaxBatch}

\* the output directory before the call: empty, or holding the file the
\* first task is going to name
EngineDisks(batch) ==
    {{}} \cup
    (IF batch # <<>> /\ ~generateFilename(batch[1], 0).err
     THEN {{[name |-> generateFilename(batch[1], 0).name, url |-> batch[1],
             complete |-> TRUE]}}
     ELSE {})

\* a call of ConcurrentDownload(ctx, urls, tempDir, maxConcurrent, maxRetries)
EngineInit ==
    /\ stream = 1
    /\ arg = NoCall
    /\ res = NoResult
    /\ pos = 0
    /\ opc = "engine"
    /\ target = TopURL
    /\ playlist = NoPlaylist
    /\ downloaded = {}
    /\ cycleErr = "nil"
    /\ now = 0
    /\ seen = {}
    /\ dispatchLog = <<>>
    /\ filtered = {}
    /\ lastFilter = [repeat |-> FALSE, newURLs |-> <<>>]
    /\ urls \in EngineBatches
    /\ disk \in EngineDisks(urls)
    /\ maxConcurrent \in 1..MaxC
    /\ maxRetries \in 0..MaxR
    /\ epc = "loop"
    /\ di = 0
    /\ sem = 0
    /\ wg = 0
    /\ errChan = <<>>
    /\ ret = NotReturned
    /\ wpc = [i \in 0..(Len(urls) - 1) |-> "idle"]
    /\ wtry = [i \in 0..(Len(urls) - 1) |-> 0]
    /\ hist = [i \in 0..(Len(urls) - 1) |-> <<>>]
    /\ nreq = [i \in 0..(Len(urls) - 1) |-> 0]
    /\ fname = [i \in 0..(Len(urls) - 1) |-> <<>>]

EngineNext == Engine

\* ConcurrentDownload called on its own
EngineSpec == EngineInit /\ [][EngineNext]_vars

\* ConcurrentDownload called on its own under the Go scheduler: the
\* dispatching loop and every started goroutine keep taking steps while they
\* can, and every transfer attempt returns
FairEngineSpec == EngineInit /\ [][EngineNext]_vars /\ WF_vars(Engine)

\* a second passes while ConcurrentDownload runs
Tick ==
    /\ epc \in {"loop", "send"}
    /\ now < MaxClock
    /\ now' = now + 1
    /\ UNCHANGED <<fnVars, stream, pos, disk, orchVars, callVars, engVars, taskVars>>

ClockNext == Engine \/ Tick

\* ConcurrentDownload called on its own while the clock runs
ClockSpec == EngineInit /\ [][ClockNext]_vars

\* ------------------------------------------------------------------------
\* The functions of the packages, each called on its own
\* ------------------------------------------------------------------------

\* the largest media sequence and the largest index ExtractSegmentID is
\* called with
MaxSeq == 7
MaxIndex == 3

Name(str) == Pre \o str

\* segment URLs: numbers with and without leading zeros, no number, digits
\* before the extension only, no extension, a number beyond int, a
\* directory, no path, and a URL url.Parse rejects
IDURLs ==
    {Seg(<<"a", "7">>), Seg(<<"a", "0", "0", "7">>), Seg(<<"a", "4", "2">>),
     Seg(<<"a", "0", "4", "2">>), Seg(<<"a", "0">>), Seg(<<"a", "0", "0">>),
     Seg(<<"7">>), Seg(<<"x">>), Seg(<<"7", "x">>), Seg(BigNum),
     Name(<<"a", "7">>), Name(<<"a", ".", "7">>), Name(<<"d", "7", "/">>),
     Pre, <<"h", ":", "/", "/", "c">>, BadSegURL}

ExtractSegmentIDCalls ==
    {[fn |-> "ExtractSegmentID", urlStr |-> u, mediaSeq |-> q, index |-> i] :
        u \in IDURLs, q \in 0..MaxSeq, i \in 0..MaxIndex}

Returned(fn, value) == [fn |-> fn, value |-> value]

CallExtractSegmentID ==
    /\ arg.fn = "ExtractSegmentID"
    /\ res = NoResult
    /\ res' = Returned(arg.fn, ExtractSegmentID(arg.urlStr, arg.mediaSeq, arg.index))
    /\ UNCHANGED <<arg, stream, pos, now, disk, orchVars, callVars, engVars, taskVars>>

\* base URLs: with and without a query, with a fragment
BaseURLs ==
    {<<"h", ":", "/", "/", "c", "/", "p", "/", "l">>,
     <<"h", ":", "/", "/", "c", "/", "p", "/", "l", "?", "k">>,
     <<"h", ":", "/", "/", "c", "/", "l", "?", "k", "#", "g">>}

\* playlist lines: relative and absolute paths, dot segments, a query, an
\* empty query, a fragment, another host, another scheme, an opaque URL, a
\* colon in the first segment, a scheme with capitals, a fragment that
\* holds "#"
Lines ==
    {<<"s">>, <<"s", "?", "x">>, <<"s", "?", "k">>, <<"s", "?">>, <<"s", "#", "f">>,
     <<"s", "?", "x", "#", "f">>, <<"s", "#", "f", "?", "x">>, <<"?", "x">>,
     <<"/", "s">>, <<"/", "s", "?", "x">>, <<".", "/", "s">>, <<".", ".", "/", "s">>,
     <<".", ".", "/", ".", ".", "/", "s">>, <<"d", "/", ".", ".", "/", "s">>,
     <<".", ".">>, <<"d", "/">>, <<"/", "/", "o", "/", "s">>,
     <<"h", ":", "/", "/", "o", "/", "s">>, <<"h", ":", "/", "/", "o", "/", "s", "?", "x">>,
     <<"h", ":", "/", "/", "o">>, <<"h", ":", "/", "s">>, <<"m", ":", "s">>,
     <<"m", ":", "s", "?", "x">>, <<":", "s">>, <<"s", ":", "1", "/", "t">>,
     <<"h", ":", "/", "/", "o", ":", "x", "/", "s">>,
     <<"H", ":", "/", "/", "o", "/", "s">>, <<"h", "X", ":", "s">>,
     <<"s", "#", "f", "#", "g">>, <<"s", "#", "f", "?", "x", "#", "y">>}

parseRelativeURLCalls ==
    {[fn |-> "parseRelativeURL", relativeURL |-> l, baseURL |-> b] :
        l \in Lines, b \in BaseURLs}

\* extractURLsFromContent: parseRelativeURL(line, base), base the URL that
\* url.Parse(baseURL) returned to Parse
CallParseRelativeURL ==
    /\ arg.fn = "parseRelativeURL"
    /\ res = NoResult
    /\ urlParse(arg.baseURL).ok
    /\ res' = Returned(arg.fn, parseRelativeURL(arg.relativeURL, urlParse(arg.baseURL)))
    /\ UNCHANGED <<arg, stream, pos, now, disk, orchVars, callVars, engVars, taskVars>>

\* playlist URLs: a file name with an unsafe character, with two dots, with
\* capitals, with no base name, a directory, the root, no path, a host with
\* a port, a path that ends in dot segments, an opaque URL, and a URL
\* url.Parse rejects
HLSURLs ==
    {<<"h", ":", "/", "/", "c", ".", "d", "/", "l", "/", "w", "!", ".", "m">>,
     <<"h", ":", "/", "/", "c", ".", "d", "/", "l", "/", "a", ".", "b", ".", "m">>,
     <<"h", ":", "/", "/", "c", ".", "d", "/", "l", "/", "A", "-", "b", "_", "9", ".", "m">>,
     <<"h", ":", "/", "/", "c", ".", "d", "/", "l", "/", ".", "m">>,
     <<"h", ":", "/", "/", "c", ".", "d", "/", "l", "/", "w", "?", "k">>,
     <<"h", ":", "/", "/", "c", ".", "d", "/", "l", "/">>,
     <<"h", ":", "/", "/", "c", ".", "d", "/">>,
     <<"h", ":", "/", "/", "c", ".", "d">>,
     <<"h", ":", "/", "/", "c", ".", "d", ":", "8", "/">>,
     <<"h", ":", "/", "/", "c", ".", "d", ":", "8", "/", "w", ".", "m">>,
     <<"h", ":", "/", "/", "c", ".", "d", "/", ".">>,
     <<"h", ":", "/", "/", "c", ".", "d", "/", "l", "/", ".", ".">>,
     <<"m", ":", "s">>,
     <<":", "s">>}

DeriveOutputDirCalls == {[fn |-> "DeriveOutputDir", hlsURL |-> u] : u \in HLSURLs}

CallDeriveOutputDir ==
    /\ arg.fn = "DeriveOutputDir"
    /\ res = NoResult
    /\ res' = Returned(arg.fn, DeriveOutputDir(arg.hlsURL))
    /\ UNCHANGED <<arg, stream, pos, now, disk, orchVars, callVars, engVars, taskVars>>

\* the most lines of a document
MaxLines == 3

\* the lines of the documents: the header, the two markers, the media
\* sequence, an entry, an entry between spaces, an entry whose fragment holds
\* the segment marker, an entry url.Parse rejects, a blank line, an entry of
\* MaxScanTokenSize bytes and one of a byte less
DocLines ==
    {<<"#", "E", "X", "T", "M", "3", "U">>,
     <<"#", "E", "X", "T", "-", "X", "-", "S", "T", "R", "E", "A", "M", "-", "I", "N", "F", ":", "b">>,
     <<"#", "E", "X", "T", "I", "N", "F", ":", "1", ",">>,
     <<"#", "E", "X", "T", "-", "X", "-", "M", "E", "D", "I", "A", "-", "S", "E", "Q", "U", "E", "N", "C", "E", ":", "5">>,
     <<"s">>, <<" ", "s", " ">>,
     <<"s", "#", "E", "X", "T", "I", "N", "F">>,
     <<":", "s">>, <<" ">>, <<LongRun>>, <<NearRun>>}

Contents == UNION {[1..n -> DocLines] : n \in 0..MaxLines}

ParseBases == {<<"h", ":", "/", "/", "c", "/", "p", "/", "l", "?", "k">>, <<":", "l">>}

ParseCalls ==
    {[fn |-> "Parse", content |-> c, baseURL |-> b] : c \in Contents, b \in ParseBases}

CallParse ==
    /\ arg.fn = "Parse"
    /\ res = NoResult
    /\ res' = Returned(arg.fn, ParseContent(arg.content, arg.baseURL))
    /\ UNCHANGED <<arg, stream, pos, now, disk, orchVars, callVars, engVars, taskVars>>

\* the entries of the playlists given to filterNewSegments: two numbered
\* names with one number, a name without a number, a directory, and a URL
\* url.Parse rejects
FilterURLs == {Seg(<<"a", "1">>), Seg(<<"b", "1">>), Seg(<<"x">>), Pre, BadSegURL}

\* playlists of up to MaxIndex entries
FilterLists == UNION {[1..n -> FilterURLs] : n \in 0..MaxIndex}

\* the ledger before the call: empty, holding the number of the numbered
\* names, holding the identity of a name without a number at index 1
FilterLedgers == {{}, {<<"1">>}, {SequenceIndexID(0, 1)}}

filterNewSegmentsCalls ==
    {[fn |-> "filterNewSegments", tsURLs |-> l, mediaSeq |-> q, ledger |-> d] :
        l \in FilterLists, q \in 0..1, d \in FilterLedgers}

CallFilterNewSegments ==
    /\ arg.fn = "filterNewSegments"
    /\ res = NoResult
    /\ res' = Returned(arg.fn, filterNewSegments(arg.tsURLs, arg.mediaSeq, arg.ledger))
    /\ UNCHANGED <<arg, stream, pos, now, disk, orchVars, callVars, engVars, taskVars>>

FnCalls ==
    ExtractSegmentIDCalls \cup parseRelativeURLCalls \cup DeriveOutputDirCalls
        \cup ParseCalls \cup filterNewSegmentsCalls

FnInit ==
    /\ stream = 1
    /\ arg \in FnCalls
    /\ res = NoResult
    /\ Constructed

FnNext ==
    \/ CallExtractSegmentID
    \/ CallParseRelativeURL
    \/ CallDeriveOutputDir
    \/ CallParse
    \/ CallFilterNewSegments

\* the functions called with the arguments of FnCalls
FnSpec == FnInit /\ [][FnNext]_vars

\* ------------------------------------------------------------------------
\* Properties
\* ------------------------------------------------------------------------

\* the tasks whose goroutine holds a slot of sem
InFlight == {w \in Tasks : wpc[w] \in {"gen", "try", "copy", "report", "release"}}

\* the task has left downloadFileWithRetry, or never entered it
Finished(w) == wpc[w] \in {"release", "wgdone", "exit"}

\* no attempt of the task returned nil
NeverSucceeded(w) == \A k \in 1..Len(hist[w]) : ~hist[w][k]

\* the task sent an error on errChan
Reported(w) == \E k \in 1..Len(errChan) : errChan[k].task = w

\* some file of the output directory holds the segment of this URL
OnDisk(u) == \E f \in disk : f.url = u

\* the name ends in digits that strconv.Atoi accepts
numberedName(name) == TrailingDigits(name) # <<>> /\ AtoiOK(TrailingDigits(name))

numberedBase(baseName) ==
    /\ baseName \notin {<<>>, <<".">>, <<"/">>}
    /\ numberedName(TrimSuffix(baseName, Ext(baseName)))

numberedURL(parsedURL) == parsedURL.ok /\ numberedBase(Base(parsedURL.Path))

\* the extension-stripped file name of the URL ends in digits that
\* strconv.Atoi accepts
NumberedURLs == {u \in KnownURLs : numberedURL(ParsedURLs[u])}

Numbered(u) == u \in NumberedURLs

NumberedStream == {Pools[1][i] : i \in 1..Len(Pools[1])}

\* C1: every segment of a parsed media playlist is eventually downloaded and
\* written to disk, and is downloaded exactly once, also when transfer
\* attempts fail transiently.  Stated on the stream of numbered names, whose
\* identities are all different.
C1_EverySegmentDownloadedOnce ==
    /\ [](stream = 1 => \A u \in NumberedStream :
                           Cardinality({f \in disk : f.url = u}) <= 1)
    /\ \A u \in NumberedStream : (stream = 1 /\ u \in seen) ~> OnDisk(u)

\* C2: over the life of one downloader, filterNewSegments returns a URL for
\* an identity at most once, also when the identity occurs twice in one
\* playlist, and an identity it returned is marked in the ledger.
C2_AtMostOncePerIdentity ==
    /\ \A i, j \in 1..Len(dispatchLog) :
          i # j => dispatchLog[i].id # dispatchLog[j].id
    /\ \A i \in 1..Len(dispatchLog) : dispatchLog[i].id \in downloaded

\* C2 witness: both URLs of the identity "1" were listed in one playlist, a
\* later playlist was filtered too, and one of them was returned.
C2_Witness ==
    /\ stream = 2
    /\ <<PlaylistAt(2, 0).URLs, 0>> \in filtered
    /\ Cardinality(filtered) >= 2
    /\ \E i \in 1..Len(dispatchLog) : dispatchLog[i].id = <<"1">>

\* C3 as claimed: a segment URL polled repeatedly in a sliding window is
\* dispatched at most once, whether or not its file name ends in digits.
C3_AtMostOncePerURL ==
    \A i, j \in 1..Len(dispatchLog) :
        i # j => dispatchLog[i].url # dispatchLog[j].url

\* where the playlists of the stream list the URL: the position of the
\* window and the place in the playlist
ListingsOf(u) ==
    {pk \in (0..MaxPos(stream)) \X (1..Len(PlaylistAt(stream, 0).URLs)) :
        PlaylistAt(stream, pk[1]).URLs[pk[2]] = u}

\* the identities "{mediaSeq}_{index}" of the listings of the URL
ListedIDs(u) ==
    {SequenceIndexID(PlaylistAt(stream, pk[1]).MediaSequence, pk[2] - 1) : pk \in ListingsOf(u)}

\* C3 amended: a segment URL polled repeatedly in a sliding window is
\* dispatched at most once when its extension-stripped file name ends in
\* digits that strconv.Atoi accepts; a segment URL without such a number is
\* dispatched under the identity "{mediaSeq}_{index}" of one of its listings,
\* and at most once under each identity.
C3_AtMostOncePerNumberedURL ==
    /\ \A i, j \in 1..Len(dispatchLog) :
           (i # j /\ dispatchLog[i].url = dispatchLog[j].url)
               => /\ ~Numbered(dispatchLog[i].url)
                  /\ dispatchLog[i].id # dispatchLog[j].id
    /\ \A i \in 1..Len(dispatchLog) :
           ~Numbered(dispatchLog[i].url)
               => dispatchLog[i].id \in ListedIDs(dispatchLog[i].url)

\* C3 witness: a numbered segment was filtered at index 1 of the playlist of
\* sequence 0 and at index 0 of the playlist of sequence 1.
C3_Witness ==
    /\ stream = 1
    /\ <<PlaylistAt(1, 0).URLs, 0>> \in filtered
    /\ <<PlaylistAt(1, 1).URLs, 1>> \in filtered
    /\ PlaylistAt(1, 0).URLs[2] = PlaylistAt(1, 1).URLs[1]
    /\ \E i \in 1..Len(dispatchLog) : dispatchLog[i].url = PlaylistAt(1, 1).URLs[1]

\* C4: filterNewSegments called again with an entry list and a sequence
\* number it was called with before returns no candidate, whatever became of
\* the downloads of the first call.
C4_IdempotentFiltering == lastFilter.repeat => lastFilter.newURLs = <<>>

\* C4 witness: a call was repeated after the downloads of the first call had
\* all failed without a file.
C4_Witness ==
    /\ lastFilter.repeat
    /\ Len(dispatchLog) > 0
    /\ disk = {}

\* C5: in every state of ConcurrentDownload at most maxConcurrent download
\* workers have started and not yet finished, those between two attempts
\* included.
C5_BoundedConcurrency == Cardinality(InFlight) <= maxConcurrent

\* C5 witness: the batch is larger than the limit, the limit is reached while
\* tasks are left to dispatch, and a worker in flight is between two attempts.
C5_Witness ==
    /\ Len(urls) > maxConcurrent
    /\ Cardinality(InFlight) = maxConcurrent
    /\ di < Len(urls)
    /\ \E w \in InFlight : wpc[w] = "try" /\ wtry[w] > 0

\* C6: ConcurrentDownload has returned, and the loop is in Sleep or in the
\* next cycle, only when every task of the batch has been dispatched and its
\* goroutine has finished.
C6_SingleJoinPoint ==
    (epc = "done" \/ opc \in {"sleep", "fetch"})
        => /\ di = Len(urls)
           /\ \A w \in Tasks : wpc[w] = "exit"

\* C6 witness: the loop is in Sleep after a batch of two tasks, one of which
\* exhausted its retries.
C6_Witness ==
    /\ opc = "sleep"
    /\ epc = "done"
    /\ Len(urls) = 2
    /\ \E w \in Tasks : Reported(w)

\* C7: a task makes at most maxRetries attempts, makes none after a
\* successful one, and is reported as failed exactly when none of its
\* attempts succeeded.
C7_PerTaskRetry ==
    \A w \in Tasks :
        /\ Len(hist[w]) <= maxRetries
        /\ \A k \in 1..(Len(hist[w]) - 1) : ~hist[w][k]
        /\ Reported(w) =>
              /\ NeverSucceeded(w)
              /\ Len(hist[w]) = IF ParsedURLs[urls[w + 1]].ok THEN maxRetries ELSE 0
        /\ Finished(w) => (Reported(w) <=> NeverSucceeded(w))

\* C7 witness: of a finished batch one task failed twice and succeeded at the
\* third of three attempts, and another failed all three.
C7_Witness ==
    /\ epc = "done"
    /\ maxRetries = 3
    /\ \E w \in Tasks : hist[w] = <<FALSE, FALSE, TRUE>> /\ ~Reported(w)
    /\ \E w \in Tasks : hist[w] = <<FALSE, FALSE, FALSE>> /\ Reported(w)

\* C8: ConcurrentDownload returns an error exactly when a task of the batch
\* failed, the error is that of one failed task, and it returns nil exactly
\* when every task succeeded.
C8_BatchOutcome ==
    epc = "done" =>
        /\ (ret # NoErr) <=> (\E w \in Tasks : NeverSucceeded(w))
        /\ ret # NoErr =>
              /\ ret.task \in Tasks
              /\ NeverSucceeded(ret.task)
              /\ ret.kind = IF ParsedURLs[urls[ret.task + 1]].ok THEN "retries"
                            ELSE "filename"

\* C8 witness: the call returned the error of one of two failed tasks, a
\* third task having succeeded.
C8_Witness ==
    /\ epc = "done"
    /\ ret # NoErr
    /\ Cardinality({w \in Tasks : NeverSucceeded(w)}) = 2
    /\ \E w \in Tasks : ~NeverSucceeded(w)

\* C9: when a task of a batch exhausts its retries, every other task of the
\* batch has still been dispatched and run when the call returns, and every
\* task that succeeded has its file on disk.
C9_PartialFailureIsolation ==
    (epc = "done" /\ \E v \in Tasks : NeverSucceeded(v))
        => \A w \in Tasks :
              /\ wpc[w] = "exit"
              /\ ParsedURLs[urls[w + 1]].ok /\ maxRetries > 0 => Len(hist[w]) > 0
              /\ ~NeverSucceeded(w) => Exists(fname[w])

\* C9 witness: the first task of a batch of three exhausted two attempts and
\* the last task, dispatched after that, wrote its file.
C9_Witness ==
    /\ epc = "done"
    /\ Len(urls) = 3
    /\ maxConcurrent = 1
    /\ hist[0] = <<FALSE, FALSE>>
    /\ Reported(0)
    /\ hist[2] = <<TRUE>>
    /\ \E f \in disk : f.name = fname[2] /\ f.complete

\* C10: an attempt that finds its destination file on disk is successful and
\* sends no request for the URL, whether or not the server can be reached.
C10_FileExistsShortCircuit ==
    [][\A w \in Tasks :
          (wpc[w] = "try" /\ Exists(fname[w]) /\ Len(hist'[w]) > Len(hist[w]))
              => (hist'[w][Len(hist'[w])] /\ nreq'[w] = nreq[w])]_vars

\* C11: a master playlist with entries makes processM3U8 fetch its first
\* entry next, and nothing is filtered, marked or dispatched on that step; a
\* master playlist without entries ends the cycle with the error and leaves
\* the ledger as it was.  No entry of a master playlist is ever filtered or
\* handed to ConcurrentDownload.
C11_MasterRedirection ==
    /\ [][(opc = "parsed" /\ playlist.IsMaster /\ Len(playlist.URLs) > 0)
              => /\ opc' = "fetch"
                 /\ target' = playlist.URLs[1]
                 /\ UNCHANGED <<downloaded, seen, dispatchLog, filtered, urls, disk>>]_vars
    /\ [][(opc = "parsed" /\ playlist.IsMaster /\ Len(playlist.URLs) = 0)
              => /\ opc' = "sleep"
                 /\ cycleErr' = "master"
                 /\ UNCHANGED <<downloaded, seen, dispatchLog, filtered, urls, disk>>]_vars
    /\ [](\A u \in {MediaListURL, AltListURL} :
             /\ u \notin seen
             /\ \A k \in 1..Len(urls) : urls[k] # u
             /\ \A k \in 1..Len(dispatchLog) : dispatchLog[k].url # u)

\* C11 witness: in a cycle after one that marked identities, the loop is about
\* to fetch the first entry of a master playlist of two entries.
C11_Witness ==
    /\ opc = "fetch"
    /\ target = MediaListURL
    /\ downloaded # {}

\* C12: Start never returns: the loop is always inside a cycle or in Sleep,
\* every cycle, failed or not, ends in Sleep, Sleep can always end, it ends
\* in the start of a new cycle on the URL Start was given, and no state is
\* without a next step.
C12_CycleFailuresNeverStop ==
    /\ [](opc \in {"fetch", "parsed", "download", "sleep"})
    /\ [][(opc # "sleep" /\ cycleErr' \in {"fetch", "parse", "master", "download"}
              /\ opc' \notin {"fetch", "parsed", "download"}) => opc' = "sleep"]_vars
    /\ [](opc = "sleep" => ENABLED Sleep)
    /\ [][(opc = "sleep" /\ opc' # "sleep")
              => (opc' = "fetch" /\ target' = TopURL /\ downloaded' = downloaded)]_vars
    /\ [](ENABLED Next)

\* C12 witness: a cycle is starting after cycles that failed in the dispatch
\* and, before it, left files on disk.
C12_Witness ==
    /\ opc = "fetch"
    /\ cycleErr = "download"
    /\ disk # {}

\* a run of digits in canonical decimal form: without leading zeros
Canonical(ds) ==
    IF StripLeadingZeros(ds) = <<>> THEN <<"0">> ELSE StripLeadingZeros(ds)

\* the base name of the URL's path without its extension
NameNoExt(urlStr) ==
    TrimSuffix(Base(urlParse(urlStr).Path), Ext(Base(urlParse(urlStr).Path)))

\* C13: for a URL whose extension-stripped base name ends in digits,
\* ExtractSegmentID returns those digits without leading zeros; for any other
\* valid base name it returns "{sequence}_{index}".
C13_IdentityDerivation ==
    (res.fn = "ExtractSegmentID" /\ res.value.err = "nil")
        => res.value.id =
              IF TrailingDigits(NameNoExt(arg.urlStr)) # <<>>
              THEN Canonical(TrailingDigits(NameNoExt(arg.urlStr)))
              ELSE SequenceIndexID(arg.mediaSeq, arg.index)

\* the query string written in a URL: what stands between the first "?" and
\* the fragment
beforeFragment(str) == Before(str, IndexOf(str, "#"))

QueryOf(str) == After(beforeFragment(str), IndexOf(beforeFragment(str), "?"))

\* C14: the entry parseRelativeURL returns carries the query string of the
\* line when the line has one, and the query string of the base URL (none
\* when the base has none) when the line has none.
C14_QueryInheritance ==
    (res.fn = "parseRelativeURL" /\ ~res.value.err)
        => QueryOf(res.value.url) =
              IF QueryOf(arg.relativeURL) # <<>> THEN QueryOf(arg.relativeURL)
              ELSE QueryOf(arg.baseURL)

\* C14 witness: a relative line without a query was resolved against a base
\* with the query "k", and a path with dot segments was cleaned on the way.
C14_Witness ==
    /\ res.fn = "parseRelativeURL"
    /\ arg.relativeURL = <<".", ".", "/", "s">>
    /\ arg.baseURL = <<"h", ":", "/", "/", "c", "/", "p", "/", "l", "?", "k">>
    /\ res.value.url = <<"h", ":", "/", "/", "c", "/", "s", "?", "k">>

\* the path of the URL names a file: what follows its last "/" is neither
\* empty nor "."
HasFileName(urlPath) ==
    After(<<"/">> \o urlPath, LastIndexOf(<<"/">> \o urlPath, "/")) \notin {<<>>, <<".">>}

IsSafe(c) == IsLetter(c) \/ IsUpper(c) \/ IsDigit(c) \/ c = "-" \/ c = "_"

\* the directory name the specification describes for a parsed URL
SpecifiedDir(parsedURL) ==
    IF HasFileName(parsedURL.Path)
    THEN safeName(TrimSuffix(Base(parsedURL.Path), Ext(Base(parsedURL.Path))))
             \o HLSSegments
    ELSE ReplaceAll(parsedURL.Host, ".", "_") \o HLSSegments

\* C15: DeriveOutputDir returns the base name of the URL path without its
\* extension, unsafe characters replaced by "_", followed by "_hls_segments";
\* for a path without a file name it returns the host with "_" for ".",
\* followed by the suffix; the result holds only letters, digits, "_", "-".
C15_DirectoryNaming ==
    (res.fn = "DeriveOutputDir" /\ ~res.value.err)
        => /\ res.value.dir = SpecifiedDir(urlParse(arg.hlsURL))
           /\ \A i \in 1..Len(res.value.dir) : IsSafe(res.value.dir[i])

\* the characters of a file name in the order of their bytes
ByteOrder ==
    <<"-", ".", "/">> \o Digits \o <<":", "_">> \o
    <<"a", "b", "c", "d", "e", "f", "g", "h", "i", "j", "k", "l", "m",
      "n", "o", "p", "q", "r", "s", "t", "u", "v", "w", "x", "y", "z">>

ByteOf(c) == CHOOSE i \in 1..Len(ByteOrder) : ByteOrder[i] = c

\* a sorts before b in the lexical order of strings
RECURSIVE LexLess(_, _)
LexLess(a, b) ==
    IF b = <<>> THEN FALSE
    ELSE IF a = <<>> THEN TRUE
    ELSE IF ByteOf(a[1]) < ByteOf(b[1]) THEN TRUE
    ELSE IF ByteOf(a[1]) > ByteOf(b[1]) THEN FALSE
    ELSE LexLess(Tail(a), Tail(b))

\* the tasks generateFilename has returned a destination to
NamedTasks == {w \in Tasks : fname[w] # <<>>}

\* C16: the destination file names of one batch, sorted lexically, stand in
\* the order of the batch indexes of their tasks, whatever the order in which
\* the workers ran and however the clock advanced meanwhile.
C16_EntryOrderStableNames ==
    \A v \in NamedTasks : \A w \in NamedTasks :
        v < w => LexLess(uniqueFilename(fname[v]), uniqueFilename(fname[w]))

\* the markers of the document Parse was called on
HasStreamInf == contentContains(arg.content, StreamInfTag)
HasExtInf == contentContains(arg.content, ExtInfTag)

IsMasterResult == ~res.value.err /\ res.value.IsMaster
IsMediaResult == ~res.value.err /\ ~res.value.IsMaster

\* C17: called with a base URL url.Parse accepts, as the program calls it,
\* Parse returns a master playlist exactly for a document with the
\* variant-stream marker and without the segment-duration marker, a media
\* playlist for every document with the segment-duration marker, and fails
\* for a document with neither; no result is both master and media.
C17_Classification ==
    (res.fn = "Parse" /\ urlParse(arg.baseURL).ok)
        => /\ IsMasterResult <=> (HasStreamInf /\ ~HasExtInf)
           /\ HasExtInf => IsMediaResult
           /\ (~HasStreamInf /\ ~HasExtInf) => res.value.err
           /\ ~(IsMasterResult /\ IsMediaResult)

\* C18: the ledger changes only in the filtering step of processM3U8, where
\* it becomes what filterNewSegments made of it; from the dispatch of a batch
\* to its join it does not change; no step of ConcurrentDownload or of its
\* workers changes it.
C18_LedgerOwnership ==
    /\ [][downloaded' # downloaded
              => /\ opc = "parsed"
                 /\ ~playlist.IsMaster
                 /\ downloaded' = filterNewSegments(playlist.URLs, playlist.MediaSequence,
                                                    downloaded).downloaded]_vars
    /\ [][opc = "download" => downloaded' = downloaded]_vars
    /\ [][Engine => downloaded' = downloaded]_vars

\* C18 witness: a batch is being downloaded, a worker has transferred a file,
\* another is still at work, and the ledger holds the marks of the filtering
\* step that gave the batch.
C18_Witness ==
    /\ opc = "download"
    /\ downloaded # {}
    /\ disk # {}
    /\ \E w \in Tasks : wpc[w] = "try"

\* C19: in every step the ledger keeps the identities it holds, and a step
\* in which a cycle ends with a fetch, parse or download failure leaves the
\* ledger as it is.
C19_LedgerMonotonicity ==
    /\ [][downloaded \subseteq downloaded']_vars
    /\ [][(opc # "sleep" /\ opc' = "sleep" /\ cycleErr' # "nil")
              => downloaded' = downloaded]_vars

\* C19 witness: a cycle has just failed in the fetch or in Parse, and the
\* ledger holds the marks of more than one filtering step.
C19_Witness ==
    /\ opc = "sleep"
    /\ cycleErr \in {"fetch", "parse"}
    /\ Cardinality(downloaded) > Window

\* identity derivation fails for the entry: url.Parse rejects it, or the base
\* name of its path is empty, "." or "/"
InvalidEntry(urlStr) ==
    \/ ~ParsedURLs[urlStr].ok
    \/ Base(ParsedURLs[urlStr].Path) \in {<<>>, <<".">>, <<"/">>}

\* the positions of the entries of the call that are not invalid
ValidPositions == {k \in 1..Len(arg.tsURLs) : ~InvalidEntry(arg.tsURLs[k])}

\* the identity of the entry at position k, derived with its own index
IdentityAt(k) == SegmentIDs[arg.tsURLs[k]][arg.mediaSeq][k - 1].id

\* the positions a filtering of the valid entries alone selects: the
\* identity is not in the ledger and no valid entry before has it
NewPositions ==
    {k \in ValidPositions :
        /\ IdentityAt(k) \notin arg.ledger
        /\ \A j \in ValidPositions : j < k => IdentityAt(j) # IdentityAt(k)}

\* the entries at the positions of S among the first n, in order
RECURSIVE EntriesAt(_, _)
EntriesAt(S, n) ==
    IF n = 0 THEN <<>>
    ELSE IF n \in S THEN Append(EntriesAt(S, n - 1), arg.tsURLs[n])
    ELSE EntriesAt(S, n - 1)

\* C20: an entry whose identity derivation fails is not dispatched and adds
\* nothing to the ledger; filterNewSegments returns, and returns for the
\* other entries what filtering them alone, each with its own position
\* index, gives.
C20_InvalidSkippedInIsolation ==
    res.fn = "filterNewSegments"
        => /\ res.value.newURLs = EntriesAt(NewPositions, Len(arg.tsURLs))
           /\ res.value.downloaded = arg.ledger \cup {IdentityAt(k) : k \in ValidPositions}
           /\ \A k \in 1..Len(res.value.newURLs) : ~InvalidEntry(res.value.newURLs[k])

\* C20 witness: a playlist with an unparsable entry, a directory entry and
\* between them a name without a number was filtered at media sequence 1: the
\* name is dispatched alone, under the identity of its index 1.
C20_Witness ==
    /\ res.fn = "filterNewSegments"
    /\ arg.tsURLs = <<BadSegURL, Seg(<<"x">>), Pre>>
    /\ arg.mediaSeq = 1
    /\ arg.ledger = {}
    /\ res.value.newURLs = <<Seg(<<"x">>)>>
    /\ res.value.downloaded = {SequenceIndexID(1, 1)}

\* C21: when every fetch and every transfer attempt returns, a cycle that
\* stands at its fetch reaches Sleep, whatever the server answers, also when
\* the first entry of a master playlist is answered with a master playlist
\* again.
C21_EveryCycleReachesSleep == (opc = "fetch") ~> (opc = "sleep")

\* the pairs a step adds to the dispatch log
NewlyDispatched == {dispatchLog'[k] : k \in (Len(dispatchLog) + 1)..Len(dispatchLog')}

\* the identities dispatched so far whose segment has no file in the output
\* directory: between two batches, those of the tasks that failed
FailedIdentities ==
    {dispatchLog[i].id : i \in {k \in 1..Len(dispatchLog) : ~OnDisk(dispatchLog[k].url)}}

\* the pair under which task w of the running batch was dispatched
PairOfTask(w) == dispatchLog[Len(dispatchLog) - Len(urls) + w + 1]

\* the segments dispatched so far that have no file in the output
\* directory: between two batches, those of the tasks that failed
FailedSegments ==
    {dispatchLog[i].url : i \in {k \in 1..Len(dispatchLog) : ~OnDisk(dispatchLog[k].url)}}

\* the identities of a batch are in the ledger when the batch is handed to
\* ConcurrentDownload, before any request is sent, and stay there while its
\* tasks run
MarkedBeforeTransfer ==
    /\ [][(opc # "download" /\ opc' = "download")
              => /\ \A p \in NewlyDispatched : p.id \notin downloaded /\ p.id \in downloaded'
                 /\ \A w \in DOMAIN nreq' : nreq'[w] = 0]_vars
    /\ [](opc = "download"
              => \A w \in Tasks : PairOfTask(w).url = urls[w + 1]
                                    /\ PairOfTask(w).id \in downloaded)

\* C22 as claimed: the identities of a batch are marked before any transfer,
\* and no later filtering step dispatches a segment whose task failed,
\* whatever its file name.
C22_FailedSegmentNeverRedispatched ==
    /\ MarkedBeforeTransfer
    /\ [][\A p \in NewlyDispatched : p.url \notin FailedSegments]_vars

\* C22 amended: the identities of a batch are in the ledger when the batch
\* is handed to ConcurrentDownload, before any request is sent, and stay
\* there while its tasks run; no later filtering step returns the identity
\* of a segment whose task failed, nor any identity that is in the ledger;
\* and no later filtering step dispatches a segment whose task failed when
\* its extension-stripped file name ends in digits that strconv.Atoi
\* accepts.
C22_MarkBeforeDownload ==
    /\ MarkedBeforeTransfer
    /\ [][\A p \in NewlyDispatched :
              /\ p.id \notin FailedIdentities
              /\ p.id \notin downloaded
              /\ Numbered(p.url) => p.url \notin FailedSegments]_vars

\* C22 witness: the task of a2 exhausted its retries in the first batch, the
\* next playlist listed a2 again, and the batch it gave holds a3 alone.
C22_Witness ==
    /\ stream = 1
    /\ opc = "download"
    /\ urls = <<Seg(<<"a", "3">>)>>
    /\ ~OnDisk(Seg(<<"a", "2">>))
    /\ \E i \in 1..Len(dispatchLog) : dispatchLog[i].url = Seg(<<"a", "2">>)
    /\ <<"2">> \in downloaded

\* C23: a call of ConcurrentDownload with a limit of at least 1 returns,
\* whatever its attempts give; a worker that has an error to report can send
\* it at once; the dispatching loop waits for a slot of sem only while
\* maxConcurrent workers hold one; every slot taken is held by a worker that
\* has not finished, and none is held when the call returns.
C23_EngineDeadlockFree ==
    /\ <>(epc = "done")
    /\ [](\A w \in Tasks : wpc[w] = "report" => ENABLED Report(w))
    /\ []((epc = "send" /\ ~ENABLED Dispatch) => Cardinality(InFlight) = maxConcurrent)
    /\ [](sem = Cardinality(InFlight))
    /\ [](epc = "done" => sem = 0)

\* C23 witness: a batch of three with a limit of 1 has returned, all three
\* tasks have reported an error, and no slot is held.
C23_Witness ==
    /\ epc = "done"
    /\ maxConcurrent = 1
    /\ Len(urls) = 3
    /\ Len(errChan) = 3
    /\ sem = 0

====
